---------------------------- MODULE Spec2Model ----------------------------
(***************************************************************************)
(* Course-management REST API (FastAPI + Google Datastore).                *)
(*                                                                         *)
(* The datastore is the only shared mutable state.  It is modelled by the  *)
(* variable db: the Courses kind (a function from course id to the four    *)
(* stored properties), the CourseInstructor kind and the CourseEnrolment   *)
(* kind (sets of entities, each with its own key).  The Users kind is      *)
(* never written by the program and is the definition Users.               *)
(*                                                                         *)
(* Every CourseClient method is a sequence of datastore calls.  A call in  *)
(* progress is a frame (method, position, arguments, locals); one step of  *)
(* a frame is exactly one datastore call together with the local           *)
(* computation that follows it.  The HTTP handlers of routers/courses.py   *)
(* run such frames one datastore call at a time (specification Spec, any   *)
(* interleaving of the requests of Procs), and the client methods are      *)
(* also called directly, one call at a time (specification SpecClient).    *)
(***************************************************************************)
EXTENDS Integers, Sequences, FiniteSets, TLC

VARIABLES db, req, last, calls, ureq

vars == <<db, req, last, calls, ureq>>

(***************************************************************************)
(* Bounds of the model.                                                    *)
(***************************************************************************)
MaxCourses == 3      \* course ids 1..MaxCourses can be allocated
MaxList == 2         \* longest id list passed to add/remove
MaxUpd == 2          \* most keys in an updates map
MaxCalls == 2        \* direct client calls in one behaviour of SpecClient
MaxEnrolls == 4      \* most CourseEnrolment entities in the store
MaxLinks == 4        \* most CourseInstructor entities in the store
MaxClock == 2        \* the times 1..MaxClock at which a token is decoded

(***************************************************************************)
(* Users kind (pre-provisioned, read-only): id -> stored properties.       *)
(***************************************************************************)
Users ==
    (1 :> [role |-> "admin", sub |-> "auth0|1", username |-> "admin1"]) @@
    (2 :> [role |-> "instructor", sub |-> "auth0|2", username |-> "instr2"]) @@
    (3 :> [role |-> "instructor", sub |-> "auth0|3", username |-> "instr3"]) @@
    (4 :> [role |-> "student", sub |-> "auth0|4", username |-> "stud4"]) @@
    (5 :> [role |-> "student", sub |-> "auth0|5", username |-> "stud5"])

UnknownUserId == 9   \* an id no User entity has
NoUser == 0          \* get_user_info returned None

ADMIN == "admin"
INSTRUCTOR == "instructor"
STUDENT == "student"

(***************************************************************************)
(* UserClient.                                                             *)
(***************************************************************************)
NoUserRec == [id |-> 0, role |-> "", sub |-> "", username |-> ""]

WithId(id) ==
    [id |-> id, role |-> Users[id].role, sub |-> Users[id].sub,
     username |-> Users[id].username]

\* get_user_by_id writes entity[0]["id"]: entity is by then the Entity itself
\* (a mapping from property names to values), and 0 is not one of its keys.
IntKey0 == "<int 0>"

\* (variant: the id is written into the entity, as get_user_by_sub does)
get_user_by_id_sets_id(id) ==
    IF id \notin DOMAIN Users
    THEN [exc |-> "UserException", user |-> NoUserRec]
    ELSE [exc |-> "none", user |-> WithId(id)]

get_user_by_id(id) ==
    IF id \notin DOMAIN Users
    THEN [exc |-> "UserException", user |-> NoUserRec]
    ELSE IF IntKey0 \notin DOMAIN Users[id]
         THEN [exc |-> "KeyError", user |-> NoUserRec]
         ELSE [exc |-> "none", user |-> WithId(id)]

get_user_by_sub(sub) ==
    IF \E id \in DOMAIN Users : Users[id].sub = sub
    THEN [exc |-> "none", user |-> WithId(CHOOSE id \in DOMAIN Users : Users[id].sub = sub)]
    ELSE [exc |-> "UserException", user |-> NoUserRec]

get_user_role(access, id) ==
    LET r == IF access = "id" THEN get_user_by_id(id) ELSE get_user_by_sub(id)
    IN [exc |-> r.exc, role |-> r.user.role]

(***************************************************************************)
(* Bearer tokens (utils/jwt_utils.py) and the principal of a request       *)
(* (dependencies.py).                                                      *)
(***************************************************************************)
\* The Authorization header: absent, "Bearer" with nothing after it (the
\* split has no element 1), "Bearer " with an empty token, or a token.
Headers == {"absent", "no_token_part", "empty_token", "bearer"}

\* A token: whether its header segment can be parsed, its alg, whether
\* signature, audience and issuer are those the identity provider gives,
\* its expiry time and its subject.
NoToken == [parses |-> FALSE, alg |-> "", genuine |-> FALSE, exp |-> 0, sub |-> ""]

Tokens ==
    [parses : BOOLEAN, alg : {"RS256", "HS256"}, genuine : BOOLEAN,
     exp : 0..MaxClock, sub : {"auth0|1", "auth0|2", "auth0|4", "auth0|nobody"}]

\* What one call of decode_token finds outside the token: whether the key
\* set of the identity provider could be fetched, and the time.
Envs == [keys : BOOLEAN, now : 1..MaxClock]

ALGORITHM == <<"RS256">>

extract_token(hdr) ==
    IF hdr = "absent" THEN "AuthError"
    ELSE IF hdr = "no_token_part" THEN "IndexError"
    ELSE IF hdr = "empty_token" THEN "AuthError"
    ELSE "none"

\* decode_token: the exception it raises ("none": it returns the payload).
decode_token(tok, env) ==
    IF ~env.keys THEN "PyJWKClientError"
    ELSE IF ~tok.genuine THEN "InvalidTokenError"
    ELSE IF env.now > tok.exp THEN "ExpiredSignatureError"
    ELSE "none"

validate_token(hdr, tok, env) ==
    IF extract_token(hdr) # "none" THEN extract_token(hdr)
    ELSE IF ~tok.parses THEN "DecodeError"
    ELSE IF tok.alg \notin {ALGORITHM[k] : k \in 1..Len(ALGORITHM)} THEN "AuthError"
    ELSE decode_token(tok, env)

authenticate_request(hdr, tok, env) == validate_token(hdr, tok, env) = "none"

\* get_user_info: authenticate_request decodes the token a first time
\* (env1); get_user_info then decodes it again (env2), outside any try.
NoPrincipal == [raised |-> FALSE, user |-> NoUser]

get_user_info(hdr, tok, env1, env2) ==
    IF ~authenticate_request(hdr, tok, env1) THEN NoPrincipal
    ELSE IF decode_token(tok, env2) # "none" THEN [raised |-> TRUE, user |-> NoUser]
    ELSE IF get_user_by_sub(tok.sub).exc # "none" THEN NoPrincipal
    ELSE [raised |-> FALSE, user |-> get_user_by_sub(tok.sub).user.id]

(***************************************************************************)
(* Inputs.                                                                 *)
(***************************************************************************)
NoFields == [number |-> 0, subject |-> "", title |-> "", term |-> ""]

CourseCS == [number |-> 101, subject |-> "CS", title |-> "Intro", term |-> "Fall"]
CourseMA == [number |-> 202, subject |-> "MA", title |-> "Calc", term |-> "Spring"]

PostBodies == {CourseCS, CourseMA}

CourseIdInputs == 1..MaxCourses
InstructorIdInputs == {2, 3}
StudentIdInputs == {4, 5}

RECURSIVE SeqsUpTo(_, _)
SeqsUpTo(S, n) ==
    IF n = 0 THEN {<<>>}
    ELSE LET shorter == SeqsUpTo(S, n - 1)
         IN shorter \cup {Append(s, x) : s \in {t \in shorter : Len(t) = n - 1}, x \in S}

Range(s) == {s[k] : k \in 1..Len(s)}

\* The value an update writes for each key (one value per key keeps the
\* store small; the key "bogus" is outside the allow-list).
UpdValue ==
    [number |-> 303, subject |-> "EE", title |-> "New", term |-> "Winter", bogus |-> 1]

UpdKeys == {"number", "title", "bogus"}

\* updates: a dict, iterated in insertion order: a sequence of distinct keys.
UpdateMaps ==
    {u \in SeqsUpTo(UpdKeys, MaxUpd) : \A a, b \in 1..Len(u) : a # b => u[a] # u[b]}

(***************************************************************************)
(* The datastore.                                                          *)
(***************************************************************************)
EmptyStore ==
    [courses |-> [c \in {} |-> NoFields], links |-> {}, enrolls |-> {}, nextCourse |-> 1,
     avatars |-> {}, blobs |-> {}]

CourseExists(d, cid) == cid \in DOMAIN d.courses

LinksOf(d, cid) == {l \in d.links : l.course_id = cid}

EnrollsOf(d, cid) == {e \in d.enrolls : e.course_id = cid}

EnrollsOfPair(d, cid, uid) ==
    {e \in d.enrolls : e.course_id = cid /\ e.student_id = uid}

\* Query results come back in key order.
FirstByKey(S) == CHOOSE e \in S : \A o \in S : e.key <= o.key

RECURSIVE KeysInOrder(_)
KeysInOrder(S) ==
    IF S = {} THEN <<>>
    ELSE LET e == FirstByKey(S) IN <<e.key>> \o KeysInOrder(S \ {e})

\* An incomplete key gets an id the kind does not use yet.  Course ids are
\* never handed out twice; link and enrolment keys are the smallest key of
\* the (course, user) family that neither the store nor a frame in flight
\* holds.
FreshKey(base, used) ==
    base + (CHOOSE n \in 0..(MaxEnrolls + MaxLinks + 4) :
               /\ (base + n) \notin used
               /\ \A m \in 0..(n - 1) : (base + m) \in used)

LinkKeyBase(cid) == cid * 10
EnrollKeyBase(cid, uid) == cid * 1000 + uid * 10

(***************************************************************************)
(* Frames: a CourseClient call in progress.                                *)
(***************************************************************************)
NoFrame ==
    [m |-> "none", pc |-> "ret", cid |-> 0, iid |-> 0, post |-> NoFields,
     upd |-> <<>>, ids |-> <<>>, i |-> 1, j |-> 1, ent |-> NoFields,
     keys |-> <<>>, res |-> 0, exc |-> "none",
     offset |-> 0, limit |-> 0, course_entities |-> <<>>,
     courses_with_instructors |-> <<>>]

Raise(f, e) == [f EXCEPT !.pc = "ret", !.exc = e, !.res = 0]
Return(f) == [f EXCEPT !.pc = "ret"]

FrameKeys(f) == Range(f.keys)

\* ---- create_course ----------------------------------------------------
create_course_frame(post, iid) ==
    [NoFrame EXCEPT !.m = "create_course", !.pc = "put_course", !.post = post, !.iid = iid]

create_course_step(d, f, ok, held) ==
    IF f.pc = "put_course"
    THEN IF ok
         THEN [db |-> [d EXCEPT !.courses = (d.nextCourse :> f.post) @@ d.courses,
                                !.nextCourse = d.nextCourse + 1],
               f |-> [f EXCEPT !.pc = "put_link", !.res = d.nextCourse]]
         ELSE [db |-> d, f |-> Raise(f, "StoreError")]
    ELSE IF ok
         THEN LET k == FreshKey(LinkKeyBase(f.res), {l.key : l \in d.links} \cup held)
              IN [db |-> [d EXCEPT !.links = d.links \cup
                            {[key |-> k, course_id |-> f.res, instructor_id |-> f.iid]}],
                  f |-> Return(f)]
         ELSE [db |-> d, f |-> Raise(f, "StoreError")]

\* ---- get_course ---------------------------------------------------------
get_course_frame(cid) ==
    [NoFrame EXCEPT !.m = "get_course", !.pc = "query", !.cid = cid]

get_course_step(d, f, ok, held) ==
    IF CourseExists(d, f.cid)
    THEN [db |-> d, f |-> Return([f EXCEPT !.ent = d.courses[f.cid], !.res = f.cid])]
    ELSE [db |-> d, f |-> Raise(f, "CourseException")]

\* ---- get_instructor -----------------------------------------------------
get_instructor_frame(cid) ==
    [NoFrame EXCEPT !.m = "get_instructor", !.pc = "query", !.cid = cid]

\* (variant: the query has no course_id filter)
get_instructor_step_unfiltered(d, f, ok, held) ==
    IF d.links = {}
    THEN [db |-> d, f |-> Raise(f, "CourseException")]
    ELSE [db |-> d, f |-> Return([f EXCEPT !.res = FirstByKey(d.links).instructor_id])]

get_instructor_step(d, f, ok, held) ==
    IF LinksOf(d, f.cid) = {}
    THEN [db |-> d, f |-> Raise(f, "CourseException")]
    ELSE [db |-> d,
          f |-> Return([f EXCEPT !.res = FirstByKey(LinksOf(d, f.cid)).instructor_id])]

\* ---- get_courses --------------------------------------------------------
\* course_query.order = ["subject"]: string values are ordered by their
\* bytes; these are the subjects a course of the model can have.  Entities
\* with equal subject come back in key order.
SubjectsAscending == <<"CS", "EE", "MA">>

SubjectRank(s) == CHOOSE k \in 1..Len(SubjectsAscending) : SubjectsAscending[k] = s

ComesBefore(d, a, b) ==
    \/ SubjectRank(d.courses[a].subject) < SubjectRank(d.courses[b].subject)
    \/ /\ d.courses[a].subject = d.courses[b].subject
       /\ a <= b

RECURSIVE OrderBySubject(_, _)
OrderBySubject(d, S) ==
    IF S = {} THEN <<>>
    ELSE LET c == CHOOSE c \in S : \A o \in S : ComesBefore(d, c, o)
         IN <<c>> \o OrderBySubject(d, S \ {c})

RECURSIVE OrderByKey(_)
OrderByKey(S) ==
    IF S = {} THEN <<>>
    ELSE LET c == CHOOSE c \in S : \A o \in S : c <= o
         IN <<c>> \o OrderByKey(S \ {c})

Entities(d, ids) == [k \in 1..Len(ids) |-> [id |-> ids[k], fields |-> d.courses[ids[k]]]]

Page(s, offset, limit) ==
    SubSeq(s, offset + 1, IF offset + limit < Len(s) THEN offset + limit ELSE Len(s))

\* (variant: the query sets no order, the entities come back in key order)
fetch_courses_unordered(d, offset, limit) ==
    Page(Entities(d, OrderByKey(DOMAIN d.courses)), offset, limit)

\* list(course_query.fetch(offset=offset, limit=limit))
fetch_courses(d, offset, limit) ==
    Page(Entities(d, OrderBySubject(d, DOMAIN d.courses)), offset, limit)

get_courses_frame(offset, limit) ==
    [NoFrame EXCEPT !.m = "get_courses", !.pc = "query", !.offset = offset, !.limit = limit]

\* the for loop moves on to the next entity, or the method returns
NextEntity(f) ==
    IF f.j = Len(f.course_entities) THEN Return([f EXCEPT !.j = 1])
    ELSE [f EXCEPT !.j = f.j + 1]

\* (variant: a course without a link makes the call fail)
get_courses_step_strict(d, f, ok, held) ==
    IF f.pc = "query"
    THEN LET ents == fetch_courses(d, f.offset, f.limit)
         IN IF Len(ents) = 0
            THEN [db |-> d, f |-> Return(f)]
            ELSE [db |-> d,
                  f |-> [f EXCEPT !.pc = "get_instructor", !.j = 1, !.course_entities = ents]]
    ELSE LET e == f.course_entities[f.j]
             g == get_instructor_step(d, get_instructor_frame(e.id), ok, held).f
         IN IF g.exc # "none"
            THEN [db |-> d,
                  f |-> Raise([f EXCEPT !.j = 1, !.courses_with_instructors = <<>>], g.exc)]
            ELSE [db |-> d,
                  f |-> NextEntity([f EXCEPT !.courses_with_instructors =
                            Append(@, [id |-> e.id, fields |-> e.fields,
                                       instructor_id |-> g.res])])]

get_courses_step(d, f, ok, held) ==
    IF f.pc = "query"
    THEN LET ents == fetch_courses(d, f.offset, f.limit)
         IN IF Len(ents) = 0
            THEN [db |-> d, f |-> Return(f)]
            ELSE [db |-> d,
                  f |-> [f EXCEPT !.pc = "get_instructor", !.j = 1, !.course_entities = ents]]
    ELSE LET e == f.course_entities[f.j]
             g == get_instructor_step(d, get_instructor_frame(e.id), ok, held).f
         IN IF g.exc = "CourseException"
            THEN [db |-> d, f |-> NextEntity(f)]
            ELSE IF g.exc # "none"
            THEN [db |-> d,
                  f |-> Raise([f EXCEPT !.j = 1, !.courses_with_instructors = <<>>], g.exc)]
            ELSE [db |-> d,
                  f |-> NextEntity([f EXCEPT !.courses_with_instructors =
                            Append(@, [id |-> e.id, fields |-> e.fields,
                                       instructor_id |-> g.res])])]

\* ---- update_course ------------------------------------------------------
valid_properties == {"number", "subject", "title", "term"}

\* The loop of update_course over updates.items(), on the local entity:
\* each valid key is assigned, the first invalid key raises.
RECURSIVE apply_updates(_, _, _)
apply_updates(ent, upd, k) ==
    IF k > Len(upd) THEN [ent |-> ent, exc |-> "none"]
    ELSE IF upd[k] \in valid_properties
         THEN apply_updates([ent EXCEPT ![upd[k]] = UpdValue[upd[k]]], upd, k + 1)
         ELSE [ent |-> ent, exc |-> "CourseException"]

update_course_frame(cid, upd) ==
    [NoFrame EXCEPT !.m = "update_course", !.pc = "get", !.cid = cid, !.upd = upd]

\* the keys of upd before position k that are valid, applied to ent
RECURSIVE apply_prefix(_, _, _)
apply_prefix(ent, upd, k) ==
    IF k > Len(upd) \/ upd[k] \notin valid_properties THEN ent
    ELSE apply_prefix([ent EXCEPT ![upd[k]] = UpdValue[upd[k]]], upd, k + 1)

\* (variant: every assignment is put as it is made)
update_course_step_put_each(d, f, ok, held) ==
    IF f.pc = "get"
    THEN IF ~CourseExists(d, f.cid)
         THEN [db |-> d, f |-> Raise(f, "CourseException")]
         ELSE LET r == apply_updates(d.courses[f.cid], f.upd, 1)
                  e == apply_prefix(d.courses[f.cid], f.upd, 1)
              IN IF r.exc # "none"
                 THEN [db |-> [d EXCEPT !.courses = (f.cid :> e) @@ d.courses],
                       f |-> Raise(f, r.exc)]
                 ELSE [db |-> d, f |-> [f EXCEPT !.pc = "put", !.ent = r.ent]]
    ELSE IF ok
         THEN [db |-> [d EXCEPT !.courses = (f.cid :> f.ent) @@ d.courses],
               f |-> Return(f)]
         ELSE [db |-> d, f |-> Raise(f, "StoreError")]

update_course_step(d, f, ok, held) ==
    IF f.pc = "get"
    THEN IF ~CourseExists(d, f.cid)
         THEN [db |-> d, f |-> Raise(f, "CourseException")]
         ELSE LET r == apply_updates(d.courses[f.cid], f.upd, 1)
              IN IF r.exc # "none"
                 THEN [db |-> d, f |-> Raise(f, r.exc)]
                 ELSE [db |-> d, f |-> [f EXCEPT !.pc = "put", !.ent = r.ent]]
    ELSE IF ok
         THEN [db |-> [d EXCEPT !.courses = (f.cid :> f.ent) @@ d.courses],
               f |-> Return(f)]
         ELSE [db |-> d, f |-> Raise(f, "StoreError")]

\* ---- update_instructor --------------------------------------------------
update_instructor_frame(cid, iid) ==
    [NoFrame EXCEPT !.m = "update_instructor", !.pc = "get", !.cid = cid, !.iid = iid]

update_instructor_step(d, f, ok, held) ==
    CASE f.pc = "get" ->
           IF CourseExists(d, f.cid)
           THEN [db |-> d, f |-> [f EXCEPT !.pc = "query"]]
           ELSE [db |-> d, f |-> Raise(f, "CourseException")]
      [] f.pc = "query" ->
           IF LinksOf(d, f.cid) # {}
           THEN [db |-> d,
                 f |-> [f EXCEPT !.pc = "put_upd",
                                 !.keys = <<FirstByKey(LinksOf(d, f.cid)).key>>]]
           ELSE [db |-> d, f |-> [f EXCEPT !.pc = "put_new"]]
      [] f.pc = "put_upd" ->
           IF ok
           THEN [db |-> [d EXCEPT !.links =
                            {l \in d.links : l.key # f.keys[1]} \cup
                            {[key |-> f.keys[1], course_id |-> f.cid,
                              instructor_id |-> f.iid]}],
                 f |-> Return([f EXCEPT !.keys = <<>>])]
           ELSE [db |-> d, f |-> Raise([f EXCEPT !.keys = <<>>], "StoreError")]
      [] OTHER ->
           IF ok
           THEN LET k == FreshKey(LinkKeyBase(f.cid), {l.key : l \in d.links} \cup held)
                IN [db |-> [d EXCEPT !.links = d.links \cup
                              {[key |-> k, course_id |-> f.cid, instructor_id |-> f.iid]}],
                    f |-> Return(f)]
           ELSE [db |-> d, f |-> Raise(f, "StoreError")]

\* ---- delete_course ------------------------------------------------------
delete_course_frame(cid) ==
    [NoFrame EXCEPT !.m = "delete_course", !.pc = "get", !.cid = cid]

delete_course_step(d, f, ok, held) ==
    IF f.pc = "get"
    THEN IF CourseExists(d, f.cid)
         THEN [db |-> d, f |-> [f EXCEPT !.pc = "delete"]]
         ELSE [db |-> d, f |-> Raise(f, "CourseException")]
    ELSE IF ok
         THEN [db |-> [d EXCEPT !.courses =
                          [c \in DOMAIN d.courses \ {f.cid} |-> d.courses[c]]],
               f |-> Return(f)]
         ELSE [db |-> d, f |-> Raise(f, "StoreError")]

\* ---- delete_course_instructor -------------------------------------------
delete_course_instructor_frame(cid) ==
    [NoFrame EXCEPT !.m = "delete_course_instructor", !.pc = "query", !.cid = cid]

\* (variant: the link is looked up but not deleted)
delete_course_instructor_step_keeps(d, f, ok, held) ==
    [db |-> d, f |-> Return(f)]

delete_course_instructor_step(d, f, ok, held) ==
    IF f.pc = "query"
    THEN IF LinksOf(d, f.cid) # {}
         THEN [db |-> d,
               f |-> [f EXCEPT !.pc = "delete",
                               !.keys = <<FirstByKey(LinksOf(d, f.cid)).key>>]]
         ELSE [db |-> d, f |-> Return(f)]
    ELSE IF ok
         THEN [db |-> [d EXCEPT !.links = {l \in d.links : l.key # f.keys[1]}],
               f |-> Return([f EXCEPT !.keys = <<>>])]
         ELSE [db |-> d, f |-> Raise([f EXCEPT !.keys = <<>>], "StoreError")]

\* ---- delete_course_enrollment -------------------------------------------
delete_course_enrollment_frame(cid) ==
    [NoFrame EXCEPT !.m = "delete_course_enrollment", !.pc = "query", !.cid = cid]

\* (variant: the enrolments are looked up but not deleted)
delete_course_enrollment_step_keeps(d, f, ok, held) ==
    [db |-> d, f |-> Return(f)]

\* (variant: the call looks the course up first, as delete_course does)
delete_course_enrollment_step_checked(d, f, ok, held) ==
    IF f.pc = "query"
    THEN IF ~CourseExists(d, f.cid)
         THEN [db |-> d, f |-> Raise(f, "CourseException")]
         ELSE IF EnrollsOf(d, f.cid) # {}
         THEN [db |-> d,
               f |-> [f EXCEPT !.pc = "delete", !.j = 1,
                               !.keys = KeysInOrder(EnrollsOf(d, f.cid))]]
         ELSE [db |-> d, f |-> Return(f)]
    ELSE IF ok
         THEN [db |-> [d EXCEPT !.enrolls = {e \in d.enrolls : e.key # f.keys[f.j]}],
               f |-> IF f.j = Len(f.keys)
                     THEN Return([f EXCEPT !.keys = <<>>, !.j = 1])
                     ELSE [f EXCEPT !.j = f.j + 1]]
         ELSE [db |-> d, f |-> Raise([f EXCEPT !.keys = <<>>, !.j = 1], "StoreError")]

delete_course_enrollment_step(d, f, ok, held) ==
    IF f.pc = "query"
    THEN IF EnrollsOf(d, f.cid) # {}
         THEN [db |-> d,
               f |-> [f EXCEPT !.pc = "delete", !.j = 1,
                               !.keys = KeysInOrder(EnrollsOf(d, f.cid))]]
         ELSE [db |-> d, f |-> Return(f)]
    ELSE IF ok
         THEN [db |-> [d EXCEPT !.enrolls = {e \in d.enrolls : e.key # f.keys[f.j]}],
               f |-> IF f.j = Len(f.keys)
                     THEN Return([f EXCEPT !.keys = <<>>, !.j = 1])
                     ELSE [f EXCEPT !.j = f.j + 1]]
         ELSE [db |-> d, f |-> Raise([f EXCEPT !.keys = <<>>, !.j = 1], "StoreError")]

\* ---- check_if_enrolled --------------------------------------------------
\* (variant: the query filters on the student only)
check_if_enrolled_any_course(d, uid, cid) ==
    \E e \in d.enrolls : e.student_id = uid

check_if_enrolled(d, uid, cid) == EnrollsOfPair(d, cid, uid) # {}

\* ---- add_users_to_course ------------------------------------------------
add_users_to_course_frame(ids, cid) ==
    [NoFrame EXCEPT !.m = "add_users_to_course", !.cid = cid, !.ids = ids,
                    !.pc = IF Len(ids) = 0 THEN "ret" ELSE "check"]

\* the for loop moves on to the next id, or the method returns
NextId(f) ==
    IF f.i = Len(f.ids)
    THEN Return([f EXCEPT !.i = 1, !.j = 1, !.keys = <<>>])
    ELSE [f EXCEPT !.pc = "check", !.i = f.i + 1, !.j = 1, !.keys = <<>>]

add_users_to_course_step(d, f, ok, held) ==
    IF f.pc = "check"
    THEN IF check_if_enrolled(d, f.ids[f.i], f.cid)
         THEN [db |-> d, f |-> NextId(f)]
         ELSE [db |-> d, f |-> [f EXCEPT !.pc = "put"]]
    ELSE IF ok
         THEN LET k == FreshKey(EnrollKeyBase(f.cid, f.ids[f.i]),
                                {e.key : e \in d.enrolls} \cup held)
              IN [db |-> [d EXCEPT !.enrolls = d.enrolls \cup
                            {[key |-> k, course_id |-> f.cid, student_id |-> f.ids[f.i]]}],
                  f |-> NextId(f)]
         ELSE [db |-> d, f |-> Raise([f EXCEPT !.i = 1], "StoreError")]

\* ---- remove_users_from_course --------------------------------------------
remove_users_from_course_frame(ids, cid) ==
    [NoFrame EXCEPT !.m = "remove_users_from_course", !.cid = cid, !.ids = ids,
                    !.pc = IF Len(ids) = 0 THEN "ret" ELSE "check"]

remove_users_from_course_step(d, f, ok, held) ==
    CASE f.pc = "check" ->
           IF check_if_enrolled(d, f.ids[f.i], f.cid)
           THEN [db |-> d, f |-> [f EXCEPT !.pc = "query"]]
           ELSE [db |-> d, f |-> NextId(f)]
      [] f.pc = "query" ->
           IF EnrollsOfPair(d, f.cid, f.ids[f.i]) # {}
           THEN [db |-> d,
                 f |-> [f EXCEPT !.pc = "delete", !.j = 1,
                                 !.keys = KeysInOrder(EnrollsOfPair(d, f.cid, f.ids[f.i]))]]
           ELSE [db |-> d, f |-> NextId(f)]
      [] OTHER ->
           IF ok
           THEN [db |-> [d EXCEPT !.enrolls = {e \in d.enrolls : e.key # f.keys[f.j]}],
                 f |-> IF f.j = Len(f.keys) THEN NextId(f) ELSE [f EXCEPT !.j = f.j + 1]]
           ELSE [db |-> d,
                 f |-> Raise([f EXCEPT !.i = 1, !.j = 1, !.keys = <<>>], "StoreError")]

(***************************************************************************)
(* Dispatch.                                                               *)
(***************************************************************************)
IsWrite(f) == f.pc \in {"put_course", "put_link", "put", "put_upd", "put_new", "delete"}

CanStep(d, f) ==
    /\ f.pc # "ret"
    /\ f.pc = "put_course" => d.nextCourse <= MaxCourses
    /\ f.pc \in {"put_link", "put_new"} => Cardinality(d.links) < MaxLinks
    /\ (f.m = "add_users_to_course" /\ f.pc = "put") => Cardinality(d.enrolls) < MaxEnrolls

ClientStep(d, f, ok, held) ==
    CASE f.m = "create_course" -> create_course_step(d, f, ok, held)
      [] f.m = "get_course" -> get_course_step(d, f, ok, held)
      [] f.m = "get_instructor" -> get_instructor_step(d, f, ok, held)
      [] f.m = "get_courses" -> get_courses_step(d, f, ok, held)
      [] f.m = "update_course" -> update_course_step(d, f, ok, held)
      [] f.m = "update_instructor" -> update_instructor_step(d, f, ok, held)
      [] f.m = "delete_course" -> delete_course_step(d, f, ok, held)
      [] f.m = "delete_course_instructor" -> delete_course_instructor_step(d, f, ok, held)
      [] f.m = "delete_course_enrollment" -> delete_course_enrollment_step(d, f, ok, held)
      [] f.m = "add_users_to_course" -> add_users_to_course_step(d, f, ok, held)
      [] f.m = "remove_users_from_course" -> remove_users_from_course_step(d, f, ok, held)
      [] OTHER -> [db |-> d, f |-> Return(f)]

\* A whole call by a single caller: the frame is stepped until it returns;
\* the failAt-th datastore write of the call raises (0: none does).
RECURSIVE RunCall(_, _, _)
RunCall(d, f, failAt) ==
    IF f.pc = "ret" THEN [db |-> d, f |-> f, stuck |-> FALSE]
    ELSE IF ~CanStep(d, f) THEN [db |-> d, f |-> f, stuck |-> TRUE]
    ELSE LET r == ClientStep(d, f, ~(IsWrite(f) /\ failAt = 1), {})
         IN RunCall(r.db, r.f, IF IsWrite(f) THEN failAt - 1 ELSE failAt)

(***************************************************************************)
(* HTTP requests (routers/courses.py).  req[p] is the request process p    *)
(* handles: its inputs, the handler's position hpc, the client call f in   *)
(* progress, the handler's locals and, once answered, status and body.     *)
(***************************************************************************)
Procs == {"p1", "p2"}

\* The store before a call, as far as it concerns the course of the call.
About(d, cid) ==
    [exists |-> CourseExists(d, cid),
     enrolled |-> {e.student_id : e \in EnrollsOf(d, cid)},
     instructors |-> {l.instructor_id : l \in LinksOf(d, cid)}]

NoCall ==
    [call |-> NoFrame, ret |-> NoFrame, failAt |-> 0, pre |-> About(EmptyStore, 0),
     created |-> 0, createdFor |-> 0]

NoOut == [id |-> 0, fields |-> NoFields, instructor_id |-> 0]
NoBody == [post |-> NoFields, upd |-> <<>>, iid |-> 0]

\* What is kept of the lists of an enrolment update that failed
\* validation: whether add and remove share an id, whether add (remove)
\* holds an id that is not the id of a User with role student, and whether
\* add is empty.
NoShape == [overlap |-> FALSE, badAdd |-> FALSE, badRemove |-> FALSE, adds |-> FALSE]

IsStudent(id) == id \in DOMAIN Users /\ Users[id].role = STUDENT
IsInstructor(id) == id \in DOMAIN Users /\ Users[id].role = INSTRUCTOR
IsAdmin(id) == id \in DOMAIN Users /\ Users[id].role = ADMIN

Shape(add, remove) ==
    [overlap |-> Range(add) \cap Range(remove) # {},
     badAdd |-> \E id \in Range(add) : ~IsStudent(id),
     badRemove |-> \E id \in Range(remove) : ~IsStudent(id),
     adds |-> add # <<>>]

Idle ==
    [st |-> "idle", op |-> "none", hpc |-> "none", user |-> NoUser, cid |-> 0,
     body |-> NoBody, add |-> <<>>, remove |-> <<>>, shape |-> NoShape, vres |-> 0,
     f |-> NoFrame,
     course |-> NoFields, status |-> 0, out |-> NoOut, solo |-> FALSE,
     pre |-> EmptyStore]

Principals == {NoUser} \cup DOMAIN Users
UserIdInputs == {2, 4, 5, UnknownUserId}

\* CoursePost: the four fields and instructor_id.
CoursePosts == {[NoBody EXCEPT !.post = post, !.iid = iid] :
                  post \in PostBodies, iid \in {2, 4, UnknownUserId}}

\* CoursePut: update_data = model_dump(exclude_none=True), the fields that
\* are set, in declaration order; iid = 0 stands for instructor_id = None.
CoursePuts == {[NoBody EXCEPT !.upd = upd, !.iid = iid] :
                 upd \in {<<>>, <<"number", "title">>},
                 iid \in {0, 3, 4, UnknownUserId}}

\* CourseEnrollmentUpdate: add and remove.
EnrollmentUpdates ==
    {ar \in SeqsUpTo(UserIdInputs, MaxList) \X SeqsUpTo(UserIdInputs, MaxList) :
        Len(ar[1]) + Len(ar[2]) <= MaxList}

Respond(r, status) == [r EXCEPT !.st = "done", !.status = status, !.f = NoFrame]
RespondWith(r, status, out) == [Respond(r, status) EXCEPT !.out = out]
Goto(r, hpc, f) == [r EXCEPT !.st = "run", !.hpc = hpc, !.f = f]

CourseResponse(id, fields, iid) == [id |-> id, fields |-> fields, instructor_id |-> iid]

\* ---- POST /courses ------------------------------------------------------
\* (variant: the role of instructor_id is not looked up)
add_new_course_start_unchecked(r) ==
    IF r.user = NoUser THEN Respond(r, 401)
    ELSE IF Users[r.user].role # ADMIN THEN Respond(r, 403)
    ELSE Goto(r, "create", create_course_frame(r.body.post, r.body.iid))

add_new_course_start(r) ==
    IF r.user = NoUser THEN Respond(r, 401)
    ELSE IF Users[r.user].role # ADMIN THEN Respond(r, 403)
    ELSE LET g == get_user_role("id", r.body.iid)
         IN IF g.exc = "UserException" THEN Respond(r, 400)
            ELSE IF g.exc # "none" THEN Respond(r, 500)
            ELSE IF g.role # INSTRUCTOR THEN Respond(r, 400)
            ELSE Goto(r, "create", create_course_frame(r.body.post, r.body.iid))

add_new_course_after(r) ==
    IF r.f.exc # "none" THEN Respond(r, 500)
    ELSE RespondWith(r, 201, CourseResponse(r.f.res, r.body.post, r.body.iid))

\* ---- GET /courses/{course_id} --------------------------------------------
\* (variant: the read requires a principal)
get_course_start_private(r) ==
    IF r.user = NoUser THEN Respond(r, 401)
    ELSE Goto(r, "get_course", get_course_frame(r.cid))

get_course_start(r) == Goto(r, "get_course", get_course_frame(r.cid))

get_course_after(r) ==
    IF r.hpc = "get_course"
    THEN IF r.f.exc = "CourseException" THEN Respond(r, 404)
         ELSE IF r.f.exc # "none" THEN Respond(r, 500)
         ELSE Goto([r EXCEPT !.course = r.f.ent], "get_instructor",
                   get_instructor_frame(r.cid))
    ELSE IF r.f.exc # "none" THEN Respond(r, 500)
         ELSE RespondWith(r, 200, CourseResponse(r.cid, r.course, r.f.res))

\* ---- PATCH /courses/{course_id} ------------------------------------------
update_course_start(r) ==
    IF r.user = NoUser THEN Respond(r, 401)
    ELSE IF Users[r.user].role # ADMIN THEN Respond(r, 403)
    ELSE Goto(r, "exists", get_course_frame(r.cid))

\* the status the except clauses of the handler's outer try give an exception
OuterTry(exc) ==
    IF exc = "CourseException" THEN 404
    ELSE IF exc = "UserException" THEN 400
    ELSE 500

AfterInstructor(r) ==
    IF r.body.upd # <<>>
    THEN Goto(r, "update_course", update_course_frame(r.cid, r.body.upd))
    ELSE Goto(r, "re_course", get_course_frame(r.cid))

update_course_after(r) ==
    CASE r.hpc = "exists" ->
           IF r.f.exc = "CourseException" THEN Respond(r, 404)
           ELSE IF r.f.exc # "none" THEN Respond(r, 500)
           ELSE LET r1 == [r EXCEPT !.course = r.f.ent]
                IN IF r.body.upd = <<>> /\ r.body.iid = 0
                   THEN Goto(r1, "noop", get_instructor_frame(r.cid))
                   ELSE IF r.body.iid # 0
                   THEN LET g == get_user_role("id", r.body.iid)
                        IN IF g.exc = "UserException" THEN Respond(r1, 400)
                           ELSE IF g.exc # "none" THEN Respond(r1, OuterTry(g.exc))
                           ELSE IF g.role # INSTRUCTOR THEN Respond(r1, 400)
                           ELSE Goto(r1, "update_instructor",
                                     update_instructor_frame(r.cid, r.body.iid))
                   ELSE AfterInstructor(r1)
      [] r.hpc = "noop" ->
           IF r.f.exc # "none" THEN Respond(r, OuterTry(r.f.exc))
           ELSE RespondWith(r, 200, CourseResponse(r.cid, r.course, r.f.res))
      [] r.hpc = "update_instructor" ->
           IF r.f.exc # "none" THEN Respond(r, OuterTry(r.f.exc))
           ELSE AfterInstructor(r)
      [] r.hpc = "update_course" ->
           IF r.f.exc # "none" THEN Respond(r, OuterTry(r.f.exc))
           ELSE Goto(r, "re_course", get_course_frame(r.cid))
      [] r.hpc = "re_course" ->
           IF r.f.exc # "none" THEN Respond(r, OuterTry(r.f.exc))
           ELSE Goto([r EXCEPT !.course = r.f.ent], "re_instructor",
                     get_instructor_frame(r.cid))
      [] OTHER ->
           IF r.f.exc # "none" THEN Respond(r, OuterTry(r.f.exc))
           ELSE RespondWith(r, 200, CourseResponse(r.cid, r.course, r.f.res))

\* ---- DELETE /courses/{course_id} ------------------------------------------
\* (variant: any principal may delete)
delete_course_start_any_role(r) ==
    IF r.user = NoUser THEN Respond(r, 401)
    ELSE Goto(r, "delete_course", delete_course_frame(r.cid))

delete_course_start(r) ==
    IF r.user = NoUser THEN Respond(r, 401)
    ELSE IF Users[r.user].role # ADMIN THEN Respond(r, 403)
    ELSE Goto(r, "delete_course", delete_course_frame(r.cid))

delete_course_after(r) ==
    IF r.f.exc # "none" THEN Respond(r, 500)
    ELSE CASE r.hpc = "delete_course" ->
                Goto(r, "delete_course_instructor", delete_course_instructor_frame(r.cid))
           [] r.hpc = "delete_course_instructor" ->
                Goto(r, "delete_course_enrollment", delete_course_enrollment_frame(r.cid))
           [] OTHER -> Respond(r, 204)

\* ---- PATCH /courses/{course_id}/students ----------------------------------
\* The two validation loops of update_course_enrollment: the status they
\* answer, or 0 when every id passes.
RECURSIVE validate_add(_, _, _)
validate_add(add, remove, k) ==
    IF k > Len(add) THEN 0
    ELSE LET g == get_user_role("id", add[k])
         IN IF g.exc = "UserException" THEN 409
            ELSE IF g.exc # "none" THEN 500
            ELSE IF g.role # STUDENT THEN 409
            ELSE IF add[k] \in Range(remove) THEN 409
            ELSE validate_add(add, remove, k + 1)

RECURSIVE validate_remove(_, _)
validate_remove(remove, k) ==
    IF k > Len(remove) THEN 0
    ELSE LET g == get_user_role("id", remove[k])
         IN IF g.exc = "UserException" THEN 409
            ELSE IF g.exc # "none" THEN 500
            ELSE IF g.role # STUDENT THEN 409
            ELSE validate_remove(remove, k + 1)

validate_enrollment(add, remove) ==
    IF validate_add(add, remove, 1) # 0 THEN validate_add(add, remove, 1)
    ELSE validate_remove(remove, 1)

\* The bodies a request can carry, each with the outcome of its validation;
\* the lists of a body that fails validation are not used again and are
\* remembered by their shape only.
ValidatedUpdates ==
    {[vres |-> validate_enrollment(ar[1], ar[2]),
      shape |-> Shape(ar[1], ar[2]),
      add |-> IF validate_enrollment(ar[1], ar[2]) = 0 THEN ar[1] ELSE <<>>,
      remove |-> IF validate_enrollment(ar[1], ar[2]) = 0 THEN ar[2] ELSE <<>>] :
        ar \in EnrollmentUpdates}

\* (variant: the role student is not turned away)
update_course_enrollment_start_any_role(r) ==
    IF r.user = NoUser THEN Respond(r, 401)
    ELSE Goto(r, "get_instructor", get_instructor_frame(r.cid))

update_course_enrollment_start(r) ==
    IF r.user = NoUser THEN Respond(r, 401)
    ELSE IF Users[r.user].role = STUDENT THEN Respond(r, 403)
    ELSE Goto(r, "get_instructor", get_instructor_frame(r.cid))

update_course_enrollment_after(r) ==
    CASE r.hpc = "get_instructor" ->
           IF r.f.exc # "none" THEN Respond(r, 500)
           ELSE IF r.user # r.f.res /\ Users[r.user].role = INSTRUCTOR
                THEN Respond(r, 403)
                ELSE Goto(r, "get_course", get_course_frame(r.cid))
      [] r.hpc = "get_course" ->
           IF r.f.exc = "CourseException" THEN Respond(r, 403)
           ELSE IF r.f.exc # "none" THEN Respond(r, 500)
           ELSE IF r.vres # 0
                THEN Respond([r EXCEPT !.hpc = "validate"], r.vres)
                ELSE Goto(r, "add_users_to_course",
                          add_users_to_course_frame(r.add, r.cid))
      [] r.hpc = "add_users_to_course" ->
           IF r.f.exc # "none" THEN Respond(r, 500)
           ELSE Goto(r, "remove_users_from_course",
                     remove_users_from_course_frame(r.remove, r.cid))
      [] OTHER ->
           IF r.f.exc # "none" THEN Respond(r, 500) ELSE Respond(r, 200)

\* ---- running a handler ----------------------------------------------------
HandlerStart(r) ==
    CASE r.op = "add_new_course" -> add_new_course_start(r)
      [] r.op = "get_course" -> get_course_start(r)
      [] r.op = "update_course" -> update_course_start(r)
      [] r.op = "delete_course" -> delete_course_start(r)
      [] OTHER -> update_course_enrollment_start(r)

HandlerAfter(r) ==
    CASE r.op = "add_new_course" -> add_new_course_after(r)
      [] r.op = "get_course" -> get_course_after(r)
      [] r.op = "update_course" -> update_course_after(r)
      [] r.op = "delete_course" -> delete_course_after(r)
      [] OTHER -> update_course_enrollment_after(r)

\* The handler runs on (local computation, reads of the Users kind) until
\* the next datastore call on the course kinds, or until it answers.
RECURSIVE RunOn(_)
RunOn(r) ==
    IF r.st = "run" /\ r.f.pc = "ret" THEN RunOn(HandlerAfter(r)) ELSE r

\* One datastore call of request r, and the handler up to the next one.
Advance(d, r, held) ==
    LET c == ClientStep(d, r.f, TRUE, held)
    IN [db |-> c.db, r |-> RunOn([r EXCEPT !.f = c.f])]

HeldKeys == UNION {FrameKeys(req[q].f) : q \in Procs}

InFlight(p) == req[p].st = "run"
NoneDone == \A q \in Procs : req[q].st # "done"

\* A request arrives at p: the handler runs up to and including its first
\* datastore call.  Requests in flight at that moment are no longer alone.
Arrive(p, r0) ==
    /\ req[p].st = "idle"
    /\ NoneDone
    /\ LET alone == \A q \in Procs : req[q].st = "idle"
           r1 == RunOn(HandlerStart([r0 EXCEPT !.solo = alone,
                                       !.pre = IF alone THEN db ELSE EmptyStore]))
           others == [q \in Procs |->
                        IF InFlight(q) THEN [req[q] EXCEPT !.solo = FALSE, !.pre = EmptyStore]
                        ELSE req[q]]
       IN IF r1.st = "run"
          THEN /\ CanStep(db, r1.f)
               /\ LET a == Advance(db, r1, HeldKeys)
                  IN /\ db' = a.db
                     /\ req' = [others EXCEPT ![p] = a.r]
          ELSE /\ db' = db
               /\ req' = [others EXCEPT ![p] = r1]
    /\ UNCHANGED <<last, calls, ureq>>

StartAddNewCourse(p) ==
    \E user \in Principals :
      \E body \in (IF IsAdmin(user) THEN CoursePosts ELSE {NoBody}) :
        Arrive(p, [Idle EXCEPT !.op = "add_new_course", !.user = user, !.body = body])

\* get_course declares no dependency on get_user_info: whatever token the
\* request carries, the handler does not see the principal.
StartGetCourse(p) ==
    \E user \in Principals, cid \in CourseIdInputs :
        Arrive(p, [Idle EXCEPT !.op = "get_course", !.user = user, !.cid = cid])

StartUpdateCourse(p) ==
    \E user \in Principals, cid \in CourseIdInputs :
      \E body \in (IF IsAdmin(user) THEN CoursePuts ELSE {NoBody}) :
        Arrive(p, [Idle EXCEPT !.op = "update_course", !.user = user, !.cid = cid,
                               !.body = body])

StartDeleteCourse(p) ==
    \E user \in Principals, cid \in CourseIdInputs :
        Arrive(p, [Idle EXCEPT !.op = "delete_course", !.user = user, !.cid = cid])

StartUpdateCourseEnrollment(p) ==
    \E user \in Principals, cid \in CourseIdInputs :
        Arrive(p, [Idle EXCEPT !.op = "update_course_enrollment", !.user = user,
                               !.cid = cid])

\* The next datastore call of the request p handles.  The request body of
\* PATCH .../students is drawn where the handler first reads it (the
\* validation loops that follow get_course); nothing before depends on it.
ReadsBody(r) == r.op = "update_course_enrollment" /\ r.hpc = "get_course"

Step(p) ==
    /\ InFlight(p)
    /\ NoneDone
    /\ ~ReadsBody(req[p])
    /\ CanStep(db, req[p].f)
    /\ LET a == Advance(db, req[p], HeldKeys)
       IN /\ db' = a.db
          /\ req' = [req EXCEPT ![p] = a.r]
    /\ UNCHANGED <<last, calls, ureq>>

StepValidate(p) ==
    /\ InFlight(p)
    /\ NoneDone
    /\ ReadsBody(req[p])
    /\ \E u \in ValidatedUpdates :
          LET a == Advance(db, [req[p] EXCEPT !.add = u.add, !.remove = u.remove,
                                              !.shape = u.shape, !.vres = u.vres],
                           HeldKeys)
          IN /\ db' = a.db
             /\ req' = [req EXCEPT ![p] = a.r]
    /\ UNCHANGED <<last, calls, ureq>>

\* The response has been sent; p is free for the next request.
Deliver(p) ==
    /\ req[p].st = "done"
    /\ req' = [req EXCEPT ![p] = Idle]
    /\ UNCHANGED <<db, last, calls, ureq>>

(***************************************************************************)
(* The users router (routers/users.py), UserClient's avatar records and    *)
(* StorageHandler.  db.avatars: the users that have a UserAvatar entity;   *)
(* db.blobs: the users whose "{id}.png" is in the bucket.                  *)
(***************************************************************************)
verify_user_has_avatar(d, id) == id \in d.avatars

create_user_avatar_record(d, id, ok) ==
    IF verify_user_has_avatar(d, id) THEN [db |-> d, exc |-> "none"]
    ELSE IF ok THEN [db |-> [d EXCEPT !.avatars = d.avatars \cup {id}], exc |-> "none"]
    ELSE [db |-> d, exc |-> "StoreError"]

\* The methods class UserClient defines.
UserClientMethods ==
    {"get_user_by_sub", "get_all_users", "get_user_by_id", "get_user_role",
     "verify_user_has_avatar", "create_user_avatar_record"}

upload_avatar(d, id, ok) ==
    IF ok THEN [db |-> [d EXCEPT !.blobs = d.blobs \cup {id}], exc |-> "none"]
    ELSE [db |-> d, exc |-> "Exception"]

get_avatar(d, id) == IF id \in d.blobs THEN "none" ELSE "Exception"

delete_avatar(d, id) ==
    IF id \in d.blobs THEN [db |-> [d EXCEPT !.blobs = d.blobs \ {id}], exc |-> "none"]
    ELSE [db |-> d, exc |-> "Exception"]

\* CourseClient.get_user_courses
get_user_courses(d, id) ==
    LET g == get_user_role("id", id)
    IN IF g.exc # "none" THEN [exc |-> g.exc, ids |-> {}]
       ELSE IF g.role = ADMIN THEN [exc |-> "Exception", ids |-> {}]
       ELSE IF g.role = STUDENT
            THEN [exc |-> "none", ids |-> {e.course_id : e \in {x \in d.enrolls : x.student_id = id}}]
            ELSE [exc |-> "none", ids |-> {l.course_id : l \in {x \in d.links : x.instructor_id = id}}]

\* error_responses of routers/users.py has these keys; error_responses[500]
\* raises KeyError.
UsersErrorResponses == {400, 401, 403, 404}

NoRep == [id |-> 0, role |-> "", sub |-> "", avatar |-> FALSE, courses |-> {}]

\* An answer of a handler: the status, whether an exception left the handler
\* (the framework then answers 500), and the body of a user representation.
Answer(d, status) == [db |-> d, status |-> status, unhandled |-> FALSE, out |-> NoRep]
Unhandled(d) == [db |-> d, status |-> 500, unhandled |-> TRUE, out |-> NoRep]
JSONError(d, status) ==
    IF status \in UsersErrorResponses THEN Answer(d, status) ELSE Unhandled(d)

\* UserResponse: the fields the model declares (none has a default) and the
\* keyword arguments get_user constructs it with.
UserResponseFields == {"id", "role", "sub", "avataor_url", "courses"}
GetUserKeywords == {"id", "role", "sub", "avatar_url", "courses"}

\* ---- GET /users/{user_id} ---------------------------------------------------
get_user(d, user, uid) ==
    IF user = NoUser THEN JSONError(d, 401)
    ELSE IF Users[user].role # ADMIN /\ uid # user THEN JSONError(d, 403)
    ELSE IF get_user_by_id(uid).exc # "none" THEN JSONError(d, 403)
    ELSE LET retrieved == get_user_by_id(uid).user
             courses == IF retrieved.role = ADMIN
                        THEN [exc |-> "none", ids |-> {}]
                        ELSE get_user_courses(d, uid)
         IN IF courses.exc # "none" THEN Unhandled(d)
            ELSE IF UserResponseFields \ GetUserKeywords # {} \/ retrieved.role = ADMIN
                 THEN Unhandled(d)
                 ELSE [Answer(d, 200) EXCEPT
                         !.out = [id |-> uid, role |-> retrieved.role, sub |-> retrieved.sub,
                                  avatar |-> verify_user_has_avatar(d, uid),
                                  courses |-> courses.ids]]

\* ---- GET /users/{user_id}/avatar --------------------------------------------
get_user_avatar(d, user, uid) ==
    IF user = NoUser THEN JSONError(d, 401)
    ELSE IF uid # user THEN JSONError(d, 403)
    ELSE IF ~verify_user_has_avatar(d, uid) THEN JSONError(d, 404)
    ELSE IF get_avatar(d, uid) # "none" THEN JSONError(d, 404)
    ELSE Answer(d, 200)

\* (variant: an admin may upload for anyone)
upload_user_avatar_admin_too(d, user, uid, failAt) ==
    IF user = NoUser THEN JSONError(d, 401)
    ELSE IF uid # user /\ Users[user].role # ADMIN THEN JSONError(d, 403)
    ELSE LET b == upload_avatar(d, uid, failAt # 1)
             a == create_user_avatar_record(b.db, uid, failAt # 2)
         IN IF b.exc # "none" THEN JSONError(b.db, 500)
            ELSE IF a.exc # "none" THEN JSONError(a.db, 500)
            ELSE Answer(a.db, 200)

\* ---- POST /users/{user_id}/avatar -------------------------------------------
\* failAt: 1 the upload to the bucket fails, 2 the put of the record fails.
upload_user_avatar(d, user, uid, failAt) ==
    IF user = NoUser THEN JSONError(d, 401)
    ELSE IF uid # user THEN JSONError(d, 403)
    ELSE LET b == upload_avatar(d, uid, failAt # 1)
             a == create_user_avatar_record(b.db, uid, failAt # 2)
         IN IF b.exc # "none" THEN JSONError(b.db, 500)
            ELSE IF a.exc # "none" THEN JSONError(a.db, 500)
            ELSE Answer(a.db, 200)

\* ---- DELETE /users/{user_id}/avatar -----------------------------------------
delete_user_avatar(d, user, uid) ==
    IF user = NoUser THEN JSONError(d, 401)
    ELSE IF uid # user THEN JSONError(d, 403)
    ELSE IF ~verify_user_has_avatar(d, uid) THEN JSONError(d, 404)
    ELSE IF "delete_user_avatar_record" \notin UserClientMethods THEN JSONError(d, 500)
    ELSE LET b == delete_avatar([d EXCEPT !.avatars = d.avatars \ {uid}], uid)
         IN IF b.exc # "none" THEN JSONError(b.db, 500) ELSE Answer(b.db, 204)

\* The request the users router handles: the token it carries and what
\* get_user_info made of it, then the route, the path id and the answer.
NoExchange ==
    [st |-> "idle", hdr |-> "absent", tok |-> NoToken,
     env1 |-> [keys |-> FALSE, now |-> 1], env2 |-> [keys |-> FALSE, now |-> 1],
     dep |-> NoPrincipal, op |-> "none", uid |-> 0, status |-> 0, unhandled |-> FALSE,
     out |-> NoRep, pre |-> EmptyStore]

UserPathIds == {1, 2, 4, UnknownUserId}

\* The store the requests start from: two courses and their students, as
\* CourseClient.create_course and add_users_to_course leave them.
SeedStore ==
    LET d1 == RunCall(EmptyStore, create_course_frame(CourseCS, 2), 0).db
        d2 == RunCall(d1, create_course_frame(CourseMA, 3), 0).db
        d3 == RunCall(d2, add_users_to_course_frame(<<4>>, 1), 0).db
    IN RunCall(d3, add_users_to_course_frame(<<5>>, 2), 0).db

Init ==
    /\ db = SeedStore
    /\ req = [p \in Procs |-> Idle]
    /\ last = NoCall
    /\ calls = 0
    /\ ureq = NoExchange

Next ==
    \E p \in Procs :
        \/ StartAddNewCourse(p)
        \/ StartGetCourse(p)
        \/ StartUpdateCourse(p)
        \/ StartDeleteCourse(p)
        \/ StartUpdateCourseEnrollment(p)
        \/ Step(p)
        \/ StepValidate(p)
        \/ Deliver(p)

Spec == Init /\ [][Next]_vars

(***************************************************************************)
(* SpecClient: direct calls of the CourseClient methods, one at a time,     *)
(* on an empty store or on the store of two courses.                       *)
(***************************************************************************)
InitClient ==
    /\ db \in {EmptyStore, SeedStore}
    /\ req = [p \in Procs |-> Idle]
    /\ last = NoCall
    /\ calls = 0
    /\ ureq = NoExchange

\* last.created / last.createdFor: the id and the instructor of the course the
\* immediately preceding call created, when that call was a create_course
\* that returned.
Call(f, failAt) ==
    /\ calls < MaxCalls
    /\ \E r \in {RunCall(db, f, failAt)} :
          /\ ~r.stuck
          /\ failAt > 0 => r.f.exc = "StoreError"
          /\ db' = r.db
          /\ last' = [call |-> f, ret |-> r.f, failAt |-> failAt, pre |-> About(db, f.cid),
                      created |-> IF last.ret.m = "create_course" /\ last.ret.exc = "none"
                                  THEN last.ret.res ELSE 0,
                      createdFor |-> IF last.ret.m = "create_course" /\ last.ret.exc = "none"
                                     THEN last.ret.iid ELSE 0]
    /\ calls' = calls + 1
    /\ UNCHANGED <<req, ureq>>

CallCreateCourse ==
    \E post \in PostBodies, iid \in InstructorIdInputs, failAt \in 0..2 :
        Call(create_course_frame(post, iid), failAt)

CallGetCourse == \E cid \in CourseIdInputs : Call(get_course_frame(cid), 0)

CallGetInstructor == \E cid \in CourseIdInputs : Call(get_instructor_frame(cid), 0)

CallUpdateCourse ==
    \E cid \in CourseIdInputs, upd \in UpdateMaps, failAt \in 0..1 :
        Call(update_course_frame(cid, upd), failAt)

CallUpdateInstructor ==
    \E cid \in CourseIdInputs, iid \in InstructorIdInputs, failAt \in 0..1 :
        Call(update_instructor_frame(cid, iid), failAt)

CallDeleteCourse ==
    \E cid \in CourseIdInputs, failAt \in 0..1 : Call(delete_course_frame(cid), failAt)

CallDeleteCourseInstructor ==
    \E cid \in CourseIdInputs, failAt \in 0..1 :
        Call(delete_course_instructor_frame(cid), failAt)

CallDeleteCourseEnrollment ==
    \E cid \in CourseIdInputs, failAt \in 0..MaxList :
        Call(delete_course_enrollment_frame(cid), failAt)

CallAddUsersToCourse ==
    \E cid \in CourseIdInputs, ids \in SeqsUpTo(StudentIdInputs, MaxList),
       failAt \in 0..MaxList :
        Call(add_users_to_course_frame(ids, cid), failAt)

CallRemoveUsersFromCourse ==
    \E cid \in CourseIdInputs, ids \in SeqsUpTo(StudentIdInputs, MaxList),
       failAt \in 0..MaxList :
        Call(remove_users_from_course_frame(ids, cid), failAt)

NextClient ==
    \/ CallCreateCourse
    \/ CallGetCourse
    \/ CallGetInstructor
    \/ CallUpdateCourse
    \/ CallUpdateInstructor
    \/ CallDeleteCourse
    \/ CallDeleteCourseInstructor
    \/ CallDeleteCourseEnrollment
    \/ CallAddUsersToCourse
    \/ CallRemoveUsersFromCourse

SpecClient == InitClient /\ [][NextClient]_vars

(***************************************************************************)
(* SpecList: get_courses called directly, between calls that create        *)
(* courses (the second write failing or not) and that delete courses and   *)
(* instructor links.                                                       *)
(***************************************************************************)
OffsetInputs == 0..MaxCourses
LimitInputs == 1..MaxCourses

CallGetCourses ==
    \E offset \in OffsetInputs, limit \in LimitInputs :
        Call(get_courses_frame(offset, limit), 0)

NextList ==
    \/ CallCreateCourse
    \/ CallDeleteCourse
    \/ CallDeleteCourseInstructor
    \/ CallGetCourses

SpecList == InitClient /\ [][NextList]_vars

(***************************************************************************)
(* SpecUsers: requests to the users router, one at a time.  The            *)
(* dependency get_user_info is resolved first, then the route's handler    *)
(* is called with its result.                                              *)
(***************************************************************************)
Authenticate ==
    /\ ureq.st = "idle"
    /\ \E hdr \in Headers, env1, env2 \in Envs :
         \E tok \in (IF hdr = "bearer" THEN Tokens ELSE {NoToken}) :
            /\ env1.now <= env2.now
            /\ ureq' = [NoExchange EXCEPT !.st = "resolved", !.hdr = hdr, !.tok = tok,
                          !.env1 = env1, !.env2 = env2,
                          !.dep = get_user_info(hdr, tok, env1, env2)]
    /\ UNCHANGED <<db, req, last, calls>>

\* The dependency raised: the handler is not called.
DependencyRaised ==
    /\ ureq.st = "resolved"
    /\ ureq.dep.raised
    /\ ureq' = [NoExchange EXCEPT !.st = "done", !.dep = ureq.dep, !.status = 500,
                                  !.unhandled = TRUE, !.pre = db]
    /\ UNCHANGED <<db, req, last, calls>>

Handle(op, uid, a) ==
    /\ ureq.st = "resolved"
    /\ ~ureq.dep.raised
    /\ db' = a.db
    /\ ureq' = [NoExchange EXCEPT !.st = "done", !.dep = ureq.dep, !.op = op, !.uid = uid,
                                  !.status = a.status, !.unhandled = a.unhandled,
                                  !.out = a.out, !.pre = db]
    /\ UNCHANGED <<req, last, calls>>

GetUser == \E uid \in UserPathIds : Handle("get_user", uid, get_user(db, ureq.dep.user, uid))

GetUserAvatar ==
    \E uid \in UserPathIds :
        Handle("get_user_avatar", uid, get_user_avatar(db, ureq.dep.user, uid))

UploadUserAvatar ==
    \E uid \in UserPathIds, failAt \in 0..2 :
        Handle("upload_user_avatar", uid, upload_user_avatar(db, ureq.dep.user, uid, failAt))

DeleteUserAvatar ==
    \E uid \in UserPathIds :
        Handle("delete_user_avatar", uid, delete_user_avatar(db, ureq.dep.user, uid))

Finish ==
    /\ ureq.st = "done"
    /\ ureq' = NoExchange
    /\ UNCHANGED <<db, req, last, calls>>

NextUsers ==
    \/ Authenticate
    \/ DependencyRaised
    \/ GetUser
    \/ GetUserAvatar
    \/ UploadUserAvatar
    \/ DeleteUserAvatar
    \/ Finish

SpecUsers == Init /\ [][NextUsers]_vars

(***************************************************************************)
(* Properties.                                                             *)
(***************************************************************************)
Answered(p, op) == req[p].st = "done" /\ req[p].op = op

\* PATCH .../students got past authorization and found the course: the
\* course exists and the caller is an admin or the course's instructor.
Validated(p) ==
    /\ Answered(p, "update_course_enrollment")
    /\ req[p].hpc \in {"validate", "add_users_to_course", "remove_users_from_course"}

\* C1: when create_course has returned a course id, a get_instructor of that
\* id that follows with no call in between returns the instructor_id that
\* was passed to create_course.
C1_GetInstructorAfterCreate ==
    (last.call.m = "get_instructor" /\ last.created # 0 /\ last.call.cid = last.created)
        => (last.ret.exc = "none" /\ last.ret.res = last.createdFor)

C1_Witness ==
    /\ last.call.m = "get_instructor"
    /\ last.created # 0
    /\ last.call.cid = last.created
    /\ last.ret.res = last.createdFor
    /\ \E l \in db.links : l.course_id # last.created /\ l.instructor_id # last.createdFor

\* C2: POST /courses by an admin with the instructor_id of an existing User
\* with role instructor is answered 201 with the new course.
C2_PostByAdminAnswers201 ==
    \A p \in Procs :
        (Answered(p, "add_new_course") /\ IsAdmin(req[p].user)
            /\ IsInstructor(req[p].body.iid))
            => (req[p].status = 201 /\ CourseExists(db, req[p].out.id))

\* C3: PATCH .../students on an existing course by an authorized caller,
\* with add and remove sharing an id, is answered 409.
C3_OverlapAnswers409 ==
    \A p \in Procs :
        (Validated(p) /\ req[p].shape.overlap) => req[p].status = 409

\* C4: PATCH .../students on an existing course by an authorized caller,
\* with an id in add or remove that is not the id of a User with role
\* student, is answered 409.
C4_NonStudentAnswers409 ==
    \A p \in Procs :
        (Validated(p) /\ (req[p].shape.badAdd \/ req[p].shape.badRemove))
            => req[p].status = 409

\* C5: add_users_to_course raises no error (the store not failing) and
\* leaves exactly one CourseEnrolment entity for the course and each id it
\* was given, also for an id given twice and for an id enrolled before.
C5_AddUsersIdempotent ==
    (last.call.m = "add_users_to_course" /\ last.failAt = 0)
        => /\ last.ret.exc = "none"
           /\ \A id \in Range(last.call.ids) :
                 Cardinality(EnrollsOfPair(db, last.call.cid, id)) = 1

C5_Witness ==
    /\ last.call.m = "add_users_to_course"
    /\ last.failAt = 0
    /\ Len(last.call.ids) = 2
    /\ last.call.ids[1] = last.call.ids[2]
    /\ last.call.ids[1] \in last.pre.enrolled
    /\ \E e \in db.enrolls :
          e.student_id = last.call.ids[1] /\ e.course_id # last.call.cid

OtherCourses(d, cid) ==
    [courses |-> [c \in DOMAIN d.courses \ {cid} |-> d.courses[c]],
     links |-> {l \in d.links : l.course_id # cid},
     enrolls |-> {e \in d.enrolls : e.course_id # cid}]

\* C8: when DELETE /courses/{id} is answered 204 and no other request ran
\* while it was handled, the store holds no Course, no CourseInstructor and
\* no CourseEnrolment of that id, and the entities of the other courses are
\* as they were when the request arrived.
C8_DeleteCascades ==
    \A p \in Procs :
        (Answered(p, "delete_course") /\ req[p].status = 204 /\ req[p].solo)
            => /\ ~CourseExists(db, req[p].cid)
               /\ LinksOf(db, req[p].cid) = {}
               /\ EnrollsOf(db, req[p].cid) = {}
               /\ OtherCourses(db, req[p].cid) = OtherCourses(req[p].pre, req[p].cid)

C8_Witness ==
    \E p \in Procs :
        /\ Answered(p, "delete_course")
        /\ req[p].status = 204
        /\ req[p].solo
        /\ LinksOf(req[p].pre, req[p].cid) # {}
        /\ EnrollsOf(req[p].pre, req[p].cid) # {}
        /\ OtherCourses(db, req[p].cid).enrolls # {}
        /\ OtherCourses(db, req[p].cid).links # {}

\* C9: when no request is in flight, every CourseInstructor link and every
\* CourseEnrolment belongs to a Course that exists.
C9_NoOrphanLinks ==
    (\A p \in Procs : ~InFlight(p))
        => /\ \A l \in db.links : CourseExists(db, l.course_id)
           /\ \A e \in db.enrolls : CourseExists(db, e.course_id)

C9_Witness ==
    /\ \A p \in Procs : ~InFlight(p)
    /\ \E p \in Procs :
          /\ Answered(p, "delete_course")
          /\ req[p].status = 204
          /\ ~req[p].solo
    /\ db.links # {}
    /\ db.enrolls # {}

\* C10: update_course on an existing course with a key outside number,
\* subject, title, term raises CourseException and leaves the store as it
\* was, wherever the key stands in the map.
HasInvalidKey(upd) == \E k \in 1..Len(upd) : upd[k] \notin valid_properties

C10_InvalidKeyLeavesCourse ==
    [][(calls' = calls + 1 /\ last'.call.m = "update_course"
          /\ CourseExists(db, last'.call.cid) /\ HasInvalidKey(last'.call.upd))
        => (last'.ret.exc = "CourseException" /\ db' = db)]_vars

C10_Witness ==
    /\ last.call.m = "update_course"
    /\ last.pre.exists
    /\ Len(last.call.upd) = 2
    /\ last.call.upd[1] \in valid_properties
    /\ last.call.upd[2] \notin valid_properties
    /\ last.ret.exc = "CourseException"

\* A request arrives at p in this step.
Arrives(p, ops) == req[p].st = "idle" /\ req'[p].st # "idle" /\ req'[p].op \in ops

Rejected(r, status) == r.st = "done" /\ r.status = status

\* C11: POST /courses, PATCH /courses/{id} and DELETE /courses/{id} answer
\* 401 when get_user_info gave no principal and 403 when the principal is
\* not an admin, and the store is as it was when the request arrived.
C11_AdminOnly ==
    [][\A p \in Procs :
         (Arrives(p, {"add_new_course", "update_course", "delete_course"})
             /\ ~IsAdmin(req'[p].user))
           => /\ Rejected(req'[p], IF req'[p].user = NoUser THEN 401 ELSE 403)
              /\ db' = db]_vars

C11_Witness ==
    \E p, q \in Procs :
        /\ Answered(p, "delete_course")
        /\ IsInstructor(req[p].user)
        /\ req[p].status = 403
        /\ LinksOf(db, req[p].cid) # {}
        /\ EnrollsOf(db, req[p].cid) # {}
        /\ InFlight(q)

RECURSIVE Handled(_, _)
Handled(d, r) ==
    IF r.st # "run" THEN r
    ELSE Handled(Advance(d, r, {}).db, Advance(d, r, {}).r)

AnswerTo(d, r0) ==
    LET r == Handled(d, RunOn(HandlerStart(r0)))
    IN [status |-> r.status, out |-> r.out]

\* C13: the answer of GET /courses/{id}, alone on a store, is the answer
\* the same store gives a request without principal, and that answer is
\* 200 with the course's fields and instructor_id when course and link exist.
C13_GetCourseIsPublic ==
    \A p \in Procs :
        (Answered(p, "get_course") /\ req[p].solo)
          => /\ [status |-> req[p].status, out |-> req[p].out]
                   = AnswerTo(req[p].pre, [Idle EXCEPT !.op = "get_course",
                                                      !.cid = req[p].cid])
             /\ (CourseExists(req[p].pre, req[p].cid) /\ LinksOf(req[p].pre, req[p].cid) # {})
                   => /\ req[p].status = 200
                      /\ req[p].out =
                           CourseResponse(req[p].cid, req[p].pre.courses[req[p].cid],
                              FirstByKey(LinksOf(req[p].pre, req[p].cid)).instructor_id)

C13_Witness ==
    \E p \in Procs :
        /\ Answered(p, "get_course")
        /\ req[p].solo
        /\ IsStudent(req[p].user)
        /\ req[p].status = 200
        /\ req[p].out.instructor_id = 3

\* C17: POST /courses by an admin with an instructor_id that is not the id
\* of a User with role instructor is answered 400 and writes nothing.
C17_BadInstructorAnswers400 ==
    \A p \in Procs :
        (Answered(p, "add_new_course") /\ IsAdmin(req[p].user)
            /\ ~IsInstructor(req[p].body.iid))
          => /\ req[p].status = 400
             /\ req[p].solo => db = req[p].pre

\* C18: PATCH /courses/{id} by an admin on an existing course with an
\* instructor_id that is not the id of a User with role instructor is
\* answered 400 and leaves the Course and its link as they were.
C18_BadReassignmentAnswers400 ==
    \A p \in Procs :
        (Answered(p, "update_course") /\ IsAdmin(req[p].user)
            /\ req[p].hpc = "exists" /\ req[p].course # NoFields
            /\ req[p].body.iid # 0 /\ ~IsInstructor(req[p].body.iid))
          => /\ req[p].status = 400
             /\ req[p].solo => db = req[p].pre

EnrolledIn(d, cid) == {e.student_id : e \in EnrollsOf(d, cid)}

\* C19: PATCH .../students on an existing course by an admin or the
\* course's instructor, alone, with disjoint lists of student ids, is
\* answered 200, and the students of the course are then the earlier ones
\* with add joined and remove taken away, other courses unchanged.
C19_EnrollmentApplied ==
    \A p \in Procs :
        (Validated(p) /\ req[p].solo /\ ~req[p].shape.overlap
            /\ ~req[p].shape.badAdd /\ ~req[p].shape.badRemove)
          => /\ req[p].status = 200
             /\ EnrolledIn(db, req[p].cid) =
                  (EnrolledIn(req[p].pre, req[p].cid) \cup Range(req[p].add))
                      \ Range(req[p].remove)
             /\ OtherCourses(db, req[p].cid) = OtherCourses(req[p].pre, req[p].cid)

\* C20: PATCH .../students by an admin or an instructor for a course id
\* that no Course has is answered 404 and changes no CourseEnrolment.
C20_MissingCourseAnswers404 ==
    \A p \in Procs :
        (Answered(p, "update_course_enrollment") /\ req[p].solo
            /\ (IsAdmin(req[p].user) \/ IsInstructor(req[p].user))
            /\ ~CourseExists(req[p].pre, req[p].cid))
          => /\ req[p].status = 404
             /\ db.enrolls = req[p].pre.enrolls

AvatarRoutes == {"get_user_avatar", "upload_user_avatar", "delete_user_avatar"}

\* C14: GET, POST and DELETE /users/{id}/avatar answer 401 without
\* principal and 403 to a principal whose id is not the path id, an admin
\* included, and no avatar record or blob is created or deleted.
C14_AvatarSelfOnly ==
    (ureq.st = "done" /\ ureq.op \in AvatarRoutes /\ ureq.dep.user # ureq.uid)
      => /\ ureq.status = IF ureq.dep.user = NoUser THEN 401 ELSE 403
         /\ db = ureq.pre

C14_Witness ==
    /\ ureq.st = "done"
    /\ ureq.op = "delete_user_avatar"
    /\ IsAdmin(ureq.dep.user)
    /\ ureq.uid = 4
    /\ ureq.status = 403
    /\ 4 \in db.avatars
    /\ 4 \in db.blobs

\* C15: GET /users/{id} for an existing user answers 401 without principal,
\* 403 to a principal that is neither admin nor that user, and to an admin
\* or that user the representation of the user: id, role, sub, whether an
\* avatar exists, and the user's courses.
C15_GetUserRepresentation ==
    (ureq.st = "done" /\ ureq.op = "get_user" /\ ureq.uid \in DOMAIN Users)
      => IF ureq.dep.user = NoUser THEN ureq.status = 401
         ELSE IF ~IsAdmin(ureq.dep.user) /\ ureq.dep.user # ureq.uid THEN ureq.status = 403
         ELSE /\ ureq.status = 200
              /\ ureq.out.id = ureq.uid
              /\ ureq.out.role = Users[ureq.uid].role
              /\ ureq.out.sub = Users[ureq.uid].sub
              /\ ureq.out.avatar = (ureq.uid \in db.avatars)

\* The token of the request verifies at both decodes and names a User.
Verifies(u) ==
    /\ u.hdr = "bearer"
    /\ u.tok.parses
    /\ u.tok.alg = "RS256"
    /\ decode_token(u.tok, u.env1) = "none"
    /\ decode_token(u.tok, u.env2) = "none"
    /\ \E id \in DOMAIN Users : Users[id].sub = u.tok.sub

\* C16: get_user_info never raises; it returns None when the header is
\* absent or has no token, the alg is not allowed, verification fails or no
\* User has the subject, and otherwise the User with the token's subject.
C16_GetUserInfoNeverRaises ==
    ureq.st = "resolved"
      => /\ ~ureq.dep.raised
         /\ ~Verifies(ureq) => ureq.dep.user = NoUser
         /\ Verifies(ureq) => /\ ureq.dep.user \in DOMAIN Users
                              /\ Users[ureq.dep.user].sub = ureq.tok.sub

\* The whole traversal of the store d in pages of limit courses: the pages of
\* get_courses for offset 0, limit, 2*limit, ... one after the other.
RECURSIVE Traversal(_, _, _)
Traversal(d, limit, offset) ==
    IF offset > MaxCourses THEN <<>>
    ELSE RunCall(d, get_courses_frame(offset, limit), 0).f.courses_with_instructors
            \o Traversal(d, limit, offset + limit)

NonDecreasingBySubject(s) ==
    \A a, b \in 1..Len(s) :
        a < b => SubjectRank(s[a].fields.subject) <= SubjectRank(s[b].fields.subject)

IdsOf(s) == [k \in 1..Len(s) |-> s[k].id]

\* C21: after a get_courses call, the pages of the traversal of the store
\* with the call's limit, one after the other, are non-decreasing in
\* subject, and the courses of the returned page stand in the order in which
\* the query returned their entities.
C21_PagesOrderedBySubject ==
    (last.call.m = "get_courses" /\ last.ret.exc = "none")
        => /\ NonDecreasingBySubject(Traversal(db, last.call.limit, 0))
           /\ LET got == IdsOf(last.ret.courses_with_instructors)
                  fetched == IdsOf(last.ret.course_entities)
              IN got = SelectSeq(fetched, LAMBDA c : c \in Range(got))

C21_Witness ==
    /\ last.call.m = "get_courses"
    /\ last.call.offset = 0
    /\ Len(last.ret.courses_with_instructors) = 3
    /\ last.ret.courses_with_instructors[2].id > last.ret.courses_with_instructors[3].id
    /\ last.ret.courses_with_instructors[2].fields.subject
          # last.ret.courses_with_instructors[3].fields.subject

\* The number of courses the store's order puts before course c.
PositionOf(d, c) ==
    Cardinality({o \in DOMAIN d.courses : o # c /\ ComesBefore(d, o, c)})

\* The courses at the positions offset .. offset+limit-1 of the store's order.
InStorePage(d, offset, limit) ==
    {c \in DOMAIN d.courses :
        PositionOf(d, c) >= offset /\ PositionOf(d, c) < offset + limit}

\* C24: get_courses(offset, limit) does not fail and returns exactly the
\* courses of the store's page [offset, offset+limit) that have a
\* CourseInstructor link, each once, with its stored fields and the
\* instructor_id of its first link.
C24_PageOmitsUnlinkedCourses ==
    (last.call.m = "get_courses" /\ last.failAt = 0)
        => LET got == last.ret.courses_with_instructors
               linked == {c \in InStorePage(db, last.call.offset, last.call.limit) :
                             LinksOf(db, c) # {}}
           IN /\ last.ret.exc = "none"
              /\ Range(IdsOf(got)) = linked
              /\ Len(got) = Cardinality(linked)
              /\ \A k \in 1..Len(got) :
                    /\ got[k].fields = db.courses[got[k].id]
                    /\ got[k].instructor_id = FirstByKey(LinksOf(db, got[k].id)).instructor_id

\* a page shorter than limit because of a course without a link, while a
\* later page is not empty
C24_Witness ==
    /\ last.call.m = "get_courses"
    /\ last.ret.exc = "none"
    /\ Len(last.ret.courses_with_instructors) < last.call.limit
    /\ \E c \in InStorePage(db, last.call.offset, last.call.limit) : LinksOf(db, c) = {}
    /\ Len(RunCall(db, get_courses_frame(last.call.offset + last.call.limit,
                                         last.call.limit), 0).f.courses_with_instructors) > 0

\* C22: DELETE /users/{id}/avatar asked by the user with that id is answered
\* 204 when the user had an avatar record, and afterwards the user has no
\* avatar record and no avatar blob; it is answered 404 with the store as it
\* was when the user had no avatar record.
C22_DeleteAvatar ==
    (ureq.st = "done" /\ ureq.op = "delete_user_avatar" /\ ureq.dep.user = ureq.uid)
        => IF verify_user_has_avatar(ureq.pre, ureq.uid)
           THEN /\ ureq.status = 204
                /\ ~verify_user_has_avatar(db, ureq.uid)
                /\ ureq.uid \notin db.blobs
           ELSE /\ ureq.status = 404
                /\ db = ureq.pre

\* A call of one of the three delete methods is made in this step, the
\* store not failing.
DeleteCalled(m) == calls' = calls + 1 /\ last'.call.m = m /\ last'.failAt = 0

\* C23 as stated: each of delete_course, delete_course_instructor and
\* delete_course_enrollment, called with the id of no Course, raises
\* CourseException and leaves the store as it was; the instructor and
\* enrolment deletes return without error on a course with no link or no
\* enrolment.
C23_DeletesFailWithoutCourse ==
    [][\A m \in {"delete_course", "delete_course_instructor", "delete_course_enrollment"} :
         DeleteCalled(m)
            => /\ ~CourseExists(db, last'.call.cid)
                    => (last'.ret.exc = "CourseException" /\ db' = db)
               /\ (m = "delete_course_instructor" /\ CourseExists(db, last'.call.cid)
                       /\ LinksOf(db, last'.call.cid) = {})
                    => (last'.ret.exc = "none" /\ db' = db)
               /\ (m = "delete_course_enrollment" /\ CourseExists(db, last'.call.cid)
                       /\ EnrollsOf(db, last'.call.cid) = {})
                    => (last'.ret.exc = "none" /\ db' = db)]_vars

\* C23 amended: delete_course with the id of no Course raises
\* CourseException and leaves the store as it was.  delete_course_instructor
\* and delete_course_enrollment do not look the course up: whether it exists
\* or not they return without error, the first having deleted the first
\* CourseInstructor link with that course_id and the second every
\* CourseEnrolment with that course_id, and nothing else; with no such
\* entity they change nothing.
C23_OnlyDeleteCourseChecksCourse ==
    [][/\ (DeleteCalled("delete_course") /\ ~CourseExists(db, last'.call.cid))
            => (last'.ret.exc = "CourseException" /\ db' = db)
       /\ DeleteCalled("delete_course_instructor")
            => /\ last'.ret.exc = "none"
               /\ db' = [db EXCEPT !.links =
                            IF LinksOf(db, last'.call.cid) = {} THEN @
                            ELSE @ \ {FirstByKey(LinksOf(db, last'.call.cid))}]
       /\ DeleteCalled("delete_course_enrollment")
            => /\ last'.ret.exc = "none"
               /\ db' = [db EXCEPT !.enrolls = @ \ EnrollsOf(db, last'.call.cid)]]_vars

\* the enrolments of a course that was deleted before are deleted by
\* delete_course_enrollment
C23_Witness ==
    /\ last.call.m = "delete_course_enrollment"
    /\ last.failAt = 0
    /\ ~last.pre.exists
    /\ last.pre.enrolled # {}
    /\ last.ret.exc = "none"
    /\ EnrollsOf(db, last.call.cid) = {}
    /\ db.enrolls # {}

\* C26: for the instructor_id of a POST /courses that an admin sent and that
\* was answered (the handler has asked for the role of that id):
\* get_user_role("id", id) returns the stored role when a User has the id and
\* raises UserException, nothing else, when none has; get_user_by_id returns
\* that User with its id set.
C26_GetUserRoleById ==
    \A p \in Procs :
        (Answered(p, "add_new_course") /\ IsAdmin(req[p].user))
            => LET id == req[p].body.iid
                   g == get_user_role("id", id)
                   u == get_user_by_id(id)
               IN IF id \in DOMAIN Users
                  THEN /\ g.exc = "none"
                       /\ g.role = Users[id].role
                       /\ u.exc = "none"
                       /\ u.user = WithId(id)
                  ELSE /\ g.exc = "UserException"
                       /\ u.exc = "UserException"

\* C25: in every reachable state each CourseEnrolment has the student_id of a
\* User with role student and each CourseInstructor link the instructor_id
\* of a User with role instructor, whatever POST /courses, PATCH
\* /courses/{id} and PATCH /courses/{id}/students requests were handled.
C25_RolesOfWrittenIds ==
    /\ \A e \in db.enrolls : IsStudent(e.student_id)
    /\ \A l \in db.links : IsInstructor(l.instructor_id)

\* an admin has asked for a course taught by a student, and the request was
\* answered without a link to the student
C25_Witness ==
    \E p \in Procs :
        /\ Answered(p, "add_new_course")
        /\ IsAdmin(req[p].user)
        /\ IsStudent(req[p].body.iid)
        /\ req[p].status # 201
        /\ db.links # {}
        /\ \A l \in db.links : l.instructor_id # req[p].body.iid

=============================================================================
